---- MODULE Spec2Model ----
(***************************************************************************)
(* Vacuum cleaner robot: the grid environment (environment.py), the search *)
(* algorithms bfs, dfs and astar (algorithms.py), the four agents          *)
(* (agents.py) and the simulation that steps them (main.py).               *)
(*                                                                         *)
(* A coordinate is a pair <<x, y>>; the grid is indexed grid[y][x] with    *)
(* 0-based rows and columns, as in the source.                             *)
(***************************************************************************)
EXTENDS Integers, Sequences, FiniteSets, TLC

VARIABLES env, run, last, sim

vars == <<env, run, last, sim>>

(***************************************************************************)
(* Bounds of the model.                                                    *)
(***************************************************************************)
\* largest grid explored by the search specification, and the most Obstacle
\* cells its grids hold
MaxWidth == 3
MaxHeight == 2
MaxObstacles == 2
\* largest grid explored by the environment specification, and the most
\* Obstacle and Dirty cells its grids start with
EnvWidth == 2
EnvHeight == 2
EnvObstacles == 1
EnvDirt == 2
\* largest grid explored by the simulation specification, and the most
\* Obstacle and Dirty cells its grids start with
SimWidth == 3
SimHeight == 2
SimObstacles == 2
SimDirt == 2
\* most resets of the simulation (by reset or select_agent) in a behaviour
MaxResets == 1
\* largest grid of the specification of the search calls on tall grids, and
\* the most Obstacle cells of its grids
TallWidth == 2
TallHeight == 4
TallObstacles == 2

(***************************************************************************)
(* environment.py: TileState                                               *)
(***************************************************************************)
CLEAN == 0
DIRTY == 1
OBSTACLE == 2

\* Python's None (came_from[start], action_data of clean and wait)
None == <<>>

Range(f) == {f[i] : i \in DOMAIN f}

Reverse(s) == [i \in 1..Len(s) |-> s[Len(s) + 1 - i]]

abs(n) == IF n < 0 THEN -n ELSE n

(***************************************************************************)
(* environment.py: Environment                                             *)
(***************************************************************************)
Cells(w, h) == (0..(w - 1)) \X (0..(h - 1))

\* Environment.__init__ followed by _initialize_grid, where the random draws
\* made the cells of obstacles Obstacle and the cells of dirt Dirty.  The
\* robot's starting cell (0, 0) is skipped by _initialize_grid.
initialize_grid(w, h, obstacles, dirt) ==
    [width |-> w,
     height |-> h,
     grid |-> [y \in 0..(h - 1) |-> [x \in 0..(w - 1) |->
                 IF <<x, y>> = <<0, 0>> THEN CLEAN
                 ELSE IF <<x, y>> \in obstacles THEN OBSTACLE
                 ELSE IF <<x, y>> \in dirt THEN DIRTY
                 ELSE CLEAN]],
     robot_pos |-> <<0, 0>>,
     total_dirt |-> Cardinality(dirt \ (obstacles \cup {<<0, 0>>})),
     cleaned_dirt |-> 0]

\* every outcome of Environment(w, h) with at most maxO obstacles and maxD dirt
Environments(w, h, maxO, maxD) ==
    LET free == Cells(w, h) \ {<<0, 0>>}
    IN  {initialize_grid(w, h, o, d) :
           <<o, d>> \in {od \in (SUBSET free) \X (SUBSET free) :
                           /\ Cardinality(od[1]) <= maxO
                           /\ Cardinality(od[2]) <= maxD
                           /\ od[1] \cap od[2] = {}}}

is_valid_position(e, x, y) == 0 <= x /\ x < e.width /\ 0 <= y /\ y < e.height

get_tile_state(e, x, y) ==
    IF ~is_valid_position(e, x, y) THEN OBSTACLE ELSE e.grid[y][x]

\* mutant: only the bounds are checked
is_walkable_in_bounds(e, x, y) == is_valid_position(e, x, y)

is_walkable(e, x, y) ==
    is_valid_position(e, x, y) /\ e.grid[y][x] # OBSTACLE

\* mutant: the position is assigned before the check
move_robot_unchecked(e, new_x, new_y) ==
    [env |-> [e EXCEPT !.robot_pos = <<new_x, new_y>>],
     ret |-> is_walkable(e, new_x, new_y)]

\* the new environment and the value returned
move_robot(e, new_x, new_y) ==
    IF is_walkable(e, new_x, new_y)
    THEN [env |-> [e EXCEPT !.robot_pos = <<new_x, new_y>>], ret |-> TRUE]
    ELSE [env |-> e, ret |-> FALSE]

\* mutant: the counter is incremented whenever the tile is not an obstacle
clean_current_tile_recount(e) ==
    LET x == e.robot_pos[1]
        y == e.robot_pos[2]
    IN  IF e.grid[y][x] # OBSTACLE
        THEN [env |-> [e EXCEPT !.grid[y][x] = CLEAN,
                                !.cleaned_dirt = e.cleaned_dirt + 1],
              ret |-> TRUE]
        ELSE [env |-> e, ret |-> FALSE]

\* mutant: the whole row of the robot is set Clean
clean_current_tile_row(e) ==
    LET x == e.robot_pos[1]
        y == e.robot_pos[2]
    IN  IF e.grid[y][x] = DIRTY
        THEN [env |-> [e EXCEPT !.grid[y] = [c \in DOMAIN @ |-> CLEAN],
                                !.cleaned_dirt = e.cleaned_dirt + 1],
              ret |-> TRUE]
        ELSE [env |-> e, ret |-> FALSE]

\* mutant: True is returned and counted but the tile stays Dirty
clean_current_tile_leaves_dirt(e) ==
    LET x == e.robot_pos[1]
        y == e.robot_pos[2]
    IN  IF e.grid[y][x] = DIRTY
        THEN [env |-> [e EXCEPT !.cleaned_dirt =
                                  IF @ < e.total_dirt THEN @ + 1 ELSE @],
              ret |-> TRUE]
        ELSE [env |-> e, ret |-> FALSE]

clean_current_tile(e) ==
    LET x == e.robot_pos[1]
        y == e.robot_pos[2]
    IN  IF e.grid[y][x] = DIRTY
        THEN [env |-> [e EXCEPT !.grid[y][x] = CLEAN,
                                !.cleaned_dirt = e.cleaned_dirt + 1],
              ret |-> TRUE]
        ELSE [env |-> e, ret |-> FALSE]

\* row-major scan: y outer, x inner
RECURSIVE dirty_scan(_, _)
dirty_scan(e, i) ==
    IF i >= e.width * e.height THEN <<>>
    ELSE LET x == i % e.width
             y == i \div e.width
         IN  (IF e.grid[y][x] = DIRTY THEN << <<x, y>> >> ELSE <<>>)
             \o dirty_scan(e, i + 1)

get_dirty_tiles(e) == dirty_scan(e, 0)

\* mutant: down is tried first
directions_down_first == << <<0, 1>>, <<1, 0>>, <<0, -1>>, <<-1, 0>> >>

directions == << <<0, -1>>, <<1, 0>>, <<0, 1>>, <<-1, 0>> >>

\* mutant: the last direction (left) is never tried
get_neighbors_no_left(e, x, y) ==
    LET cand == [i \in 1..3 |-> <<x + directions[i][1], y + directions[i][2]>>]
    IN  SelectSeq(cand, LAMBDA p : is_walkable(e, p[1], p[2]))

\* mutant: every neighbour inside the grid is returned, obstacle or not
get_neighbors_in_bounds(e, x, y) ==
    LET cand == [i \in 1..4 |-> <<x + directions[i][1], y + directions[i][2]>>]
    IN  SelectSeq(cand, LAMBDA p : is_valid_position(e, p[1], p[2]))

get_neighbors(e, x, y) ==
    LET cand == [i \in 1..4 |-> <<x + directions[i][1], y + directions[i][2]>>]
    IN  SelectSeq(cand, LAMBDA p : is_walkable(e, p[1], p[2]))

is_all_clean(e) == e.cleaned_dirt >= e.total_dirt

(***************************************************************************)
(* algorithms.py: SearchResult, reconstruct_path                           *)
(***************************************************************************)
SearchResult ==
    [path |-> <<>>,
     nodes_expanded |-> 0,
     nodes_in_frontier |-> 0,
     explored |-> {},
     frontier_history |-> <<>>,
     path_cost |-> 0,
     found |-> FALSE]

\* the cells appended while walking the predecessor links from current to start
RECURSIVE walk_back(_, _, _)
walk_back(came_from, start, current) ==
    IF current = start THEN <<>>
    ELSE <<current>> \o walk_back(came_from, start, came_from[current])

\* mutant: the path is not reversed
reconstruct_path_unreversed(came_from, start, goal) ==
    walk_back(came_from, start, goal)

reconstruct_path(came_from, start, goal) ==
    Reverse(walk_back(came_from, start, goal))

(***************************************************************************)
(* A call of bfs, dfs or astar in progress is a record: its arguments,     *)
(* its locals (frontier, came_from, g_score, explored), its result, and    *)
(* pc: "idle" (no call), "loop" (at the head of the while-loop) or         *)
(* "returned".                                                             *)
(***************************************************************************)
NoCall ==
    [alg |-> "none", start |-> None, goal |-> None, pc |-> "idle",
     frontier |-> <<>>, came_from |-> <<>>, g_score |-> <<>>,
     explored |-> {}, result |-> SearchResult]

\* mutant: no early return for start == goal
search_begin_no_early_return(alg, start, goal) ==
    [NoCall EXCEPT !.alg = alg, !.start = start, !.goal = goal,
                   !.pc = "loop",
                   !.frontier = IF alg = "astar" THEN << <<0, start>> >>
                                ELSE <<start>>,
                   !.came_from = (start :> None),
                   !.g_score = IF alg = "astar" THEN (start :> 0) ELSE <<>>]

\* lines 46-54, 89-97, 140-149: the early return for start == goal, else the
\* initial frontier and maps
search_begin(alg, start, goal) ==
    IF start = goal
    THEN [NoCall EXCEPT !.alg = alg, !.start = start, !.goal = goal,
                        !.pc = "returned", !.result.found = TRUE]
    ELSE [NoCall EXCEPT !.alg = alg, !.start = start, !.goal = goal,
                        !.pc = "loop",
                        !.frontier = IF alg = "astar" THEN << <<0, start>> >>
                                     ELSE <<start>>,
                        !.came_from = (start :> None),
                        !.g_score = IF alg = "astar" THEN (start :> 0)
                                    ELSE <<>>]

\* goal expanded: the path is reconstructed and the call returns found
goal_reached(s) ==
    LET path == reconstruct_path(s.came_from, s.start, s.goal)
    IN  [s EXCEPT !.result.path = path,
                  !.result.path_cost = Len(path),
                  !.result.explored = s.explored,
                  !.result.found = TRUE,
                  !.pc = "returned"]

\* the while-loop ends with the frontier empty: the call returns not found
frontier_exhausted(s) ==
    [s EXCEPT !.result.explored = s.explored, !.pc = "returned"]

(***************************************************************************)
(* algorithms.py: bfs                                                      *)
(***************************************************************************)
\* mutant: every neighbour is queued, discovered before or not
RECURSIVE bfs_discover_unchecked(_, _, _)
bfs_discover_unchecked(s, current, nbrs) ==
    IF nbrs = <<>> THEN s
    ELSE bfs_discover_unchecked(
             [s EXCEPT !.frontier = Append(@, Head(nbrs)),
                       !.came_from = (Head(nbrs) :> current) @@ @],
             current, Tail(nbrs))

\* mutant: a neighbour is queued unless explored, even when already queued
RECURSIVE bfs_discover_requeue(_, _, _)
bfs_discover_requeue(s, current, nbrs) ==
    IF nbrs = <<>> THEN s
    ELSE LET neighbor == Head(nbrs)
         IN  IF neighbor \notin s.explored
             THEN bfs_discover_requeue(
                      [s EXCEPT !.frontier = Append(@, neighbor),
                                !.came_from = (neighbor :> current) @@ @],
                      current, Tail(nbrs))
             ELSE bfs_discover_requeue(s, current, Tail(nbrs))

RECURSIVE bfs_discover(_, _, _)
bfs_discover(s, current, nbrs) ==
    IF nbrs = <<>> THEN s
    ELSE LET neighbor == Head(nbrs)
         IN  IF neighbor \notin DOMAIN s.came_from /\ neighbor \notin s.explored
             THEN bfs_discover([s EXCEPT !.frontier = Append(@, neighbor),
                                         !.came_from = (neighbor :> current) @@ @],
                               current, Tail(nbrs))
             ELSE bfs_discover(s, current, Tail(nbrs))

\* mutant: frontier.pop() in place of frontier.popleft()
bfs_iteration_lifo(e, s) ==
    LET current == s.frontier[Len(s.frontier)]
        s1 == [s EXCEPT !.result.frontier_history = Append(@, Range(s.frontier)),
                        !.frontier = SubSeq(@, 1, Len(@) - 1),
                        !.explored = @ \cup {current},
                        !.result.nodes_expanded = @ + 1]
    IN  IF current = s.goal THEN goal_reached(s1)
        ELSE bfs_discover(s1, current, get_neighbors(e, current[1], current[2]))

\* one iteration of the while-loop
bfs_iteration(e, s) ==
    LET current == Head(s.frontier)
        s1 == [s EXCEPT !.result.frontier_history = Append(@, Range(s.frontier)),
                        !.frontier = Tail(@),
                        !.explored = @ \cup {current},
                        !.result.nodes_expanded = @ + 1]
    IN  IF current = s.goal THEN goal_reached(s1)
        ELSE bfs_discover(s1, current, get_neighbors(e, current[1], current[2]))

(***************************************************************************)
(* algorithms.py: dfs                                                      *)
(***************************************************************************)
\* mutant: a neighbour is pushed whenever it is not yet explored
RECURSIVE dfs_discover_unvisited(_, _, _)
dfs_discover_unvisited(s, current, nbrs) ==
    IF nbrs = <<>> THEN s
    ELSE LET neighbor == Head(nbrs)
         IN  IF neighbor \notin s.explored
             THEN dfs_discover_unvisited(
                      [s EXCEPT !.frontier = Append(@, neighbor),
                                !.came_from = (neighbor :> current) @@ @],
                      current, Tail(nbrs))
             ELSE dfs_discover_unvisited(s, current, Tail(nbrs))

RECURSIVE dfs_discover(_, _, _)
dfs_discover(s, current, nbrs) ==
    IF nbrs = <<>> THEN s
    ELSE LET neighbor == Head(nbrs)
         IN  IF neighbor \notin DOMAIN s.came_from /\ neighbor \notin s.explored
             THEN dfs_discover([s EXCEPT !.frontier = Append(@, neighbor),
                                         !.came_from = (neighbor :> current) @@ @],
                               current, Tail(nbrs))
             ELSE dfs_discover(s, current, Tail(nbrs))

dfs_iteration(e, s) ==
    LET current == s.frontier[Len(s.frontier)]
        s1 == [s EXCEPT !.result.frontier_history = Append(@, Range(s.frontier)),
                        !.frontier = SubSeq(@, 1, Len(@) - 1)]
        s2 == [s1 EXCEPT !.explored = @ \cup {current},
                         !.result.nodes_expanded = @ + 1]
    IN  IF current \in s.explored THEN s1
        ELSE IF current = s.goal THEN goal_reached(s2)
        ELSE dfs_discover(s2, current, get_neighbors(e, current[1], current[2]))

(***************************************************************************)
(* algorithms.py: heuristic, astar                                         *)
(***************************************************************************)
heuristic(pos1, pos2) == abs(pos1[1] - pos2[1]) + abs(pos1[2] - pos2[2])

\* Python's order on the heap entries (f_score, (x, y))
entry_less(a, b) ==
    \/ a[1] < b[1]
    \/ /\ a[1] = b[1]
       /\ \/ a[2][1] < b[2][1]
          \/ a[2][1] = b[2][1] /\ a[2][2] < b[2][2]

\* mutant: frontier.pop() in place of heapq.heappop(frontier)
heappop_last(heap) ==
    [item |-> heap[Len(heap)], heap |-> SubSeq(heap, 1, Len(heap) - 1)]

\* heapq.heappop: the least entry, and the heap without it
heappop(heap) ==
    LET least == CHOOSE a \in Range(heap) :
                     \A b \in Range(heap) : a = b \/ entry_less(a, b)
        i == CHOOSE k \in 1..Len(heap) :
                 heap[k] = least /\ \A j \in 1..(k - 1) : heap[j] # least
    IN  [item |-> least,
         heap |-> SubSeq(heap, 1, i - 1) \o SubSeq(heap, i + 1, Len(heap))]

\* heapq.heappush: the order inside the list is not observable through heappop
heappush(heap, item) == Append(heap, item)

\* mutant: a cell already given a cost is never pushed again
RECURSIVE astar_discover_no_improve(_, _, _)
astar_discover_no_improve(s, current, nbrs) ==
    IF nbrs = <<>> THEN s
    ELSE LET neighbor == Head(nbrs)
             tentative_g == s.g_score[current] + 1
             f_score == tentative_g + heuristic(neighbor, s.goal)
         IN  IF neighbor \in s.explored
             THEN astar_discover_no_improve(s, current, Tail(nbrs))
             ELSE IF neighbor \notin DOMAIN s.g_score
             THEN astar_discover_no_improve(
                      [s EXCEPT !.g_score = (neighbor :> tentative_g) @@ @,
                                !.frontier = heappush(@, <<f_score, neighbor>>),
                                !.came_from = (neighbor :> current) @@ @],
                      current, Tail(nbrs))
             ELSE astar_discover_no_improve(s, current, Tail(nbrs))

RECURSIVE astar_discover(_, _, _)
astar_discover(s, current, nbrs) ==
    IF nbrs = <<>> THEN s
    ELSE LET neighbor == Head(nbrs)
             tentative_g == s.g_score[current] + 1
             f_score == tentative_g + heuristic(neighbor, s.goal)
         IN  IF neighbor \in s.explored
             THEN astar_discover(s, current, Tail(nbrs))
             ELSE IF \/ neighbor \notin DOMAIN s.g_score
                     \/ tentative_g < s.g_score[neighbor]
             THEN astar_discover(
                      [s EXCEPT !.g_score = (neighbor :> tentative_g) @@ @,
                                !.frontier = heappush(@, <<f_score, neighbor>>),
                                !.came_from = (neighbor :> current) @@ @],
                      current, Tail(nbrs))
             ELSE astar_discover(s, current, Tail(nbrs))

\* mutant: an entry popped for an explored cell is expanded again
astar_iteration_no_skip(e, s) ==
    LET popped == heappop(s.frontier)
        current == popped.item[2]
        s1 == [s EXCEPT !.result.frontier_history =
                            Append(@, {en[2] : en \in Range(s.frontier)}),
                        !.frontier = popped.heap]
        s2 == [s1 EXCEPT !.explored = @ \cup {current},
                         !.result.nodes_expanded = @ + 1]
    IN  IF current = s.goal THEN goal_reached(s2)
        ELSE astar_discover(s2, current, get_neighbors(e, current[1], current[2]))

astar_iteration(e, s) ==
    LET popped == heappop(s.frontier)
        current == popped.item[2]
        s1 == [s EXCEPT !.result.frontier_history =
                            Append(@, {en[2] : en \in Range(s.frontier)}),
                        !.frontier = popped.heap]
        s2 == [s1 EXCEPT !.explored = @ \cup {current},
                         !.result.nodes_expanded = @ + 1]
    IN  IF current \in s.explored THEN s1
        ELSE IF current = s.goal THEN goal_reached(s2)
        ELSE astar_discover(s2, current, get_neighbors(e, current[1], current[2]))

(***************************************************************************)
(* A whole call: the loop run to its return.                               *)
(***************************************************************************)
search_step(e, s) ==
    IF s.frontier = <<>> THEN frontier_exhausted(s)
    ELSE CASE s.alg = "bfs" -> bfs_iteration(e, s)
           [] s.alg = "dfs" -> dfs_iteration(e, s)
           [] s.alg = "astar" -> astar_iteration(e, s)

RECURSIVE search_loop(_, _)
search_loop(e, s) ==
    IF s.pc = "returned" THEN s ELSE search_loop(e, search_step(e, s))

bfs(e, start, goal) == search_loop(e, search_begin("bfs", start, goal)).result

dfs(e, start, goal) == search_loop(e, search_begin("dfs", start, goal)).result

astar(e, start, goal) == search_loop(e, search_begin("astar", start, goal)).result

(***************************************************************************)
(* algorithms.py: find_nearest_dirty_tile                                  *)
(***************************************************************************)
\* mutant: the last of the dirty tiles at the least Manhattan distance
find_nearest_dirty_tile_last(e, start) ==
    LET dirty_tiles == get_dirty_tiles(e)
    IN  IF dirty_tiles = <<>> THEN None
        ELSE dirty_tiles[CHOOSE i \in 1..Len(dirty_tiles) :
               \A j \in 1..Len(dirty_tiles) :
                 /\ heuristic(start, dirty_tiles[i])
                      <= heuristic(start, dirty_tiles[j])
                 /\ j > i => heuristic(start, dirty_tiles[i])
                               < heuristic(start, dirty_tiles[j])]

\* min(dirty_tiles, key = heuristic(start, .)): the first, in row-major
\* order, of the dirty tiles at the least Manhattan distance; None if no
\* tile is dirty
find_nearest_dirty_tile(e, start) ==
    LET dirty_tiles == get_dirty_tiles(e)
    IN  IF dirty_tiles = <<>> THEN None
        ELSE dirty_tiles[CHOOSE i \in 1..Len(dirty_tiles) :
               \A j \in 1..Len(dirty_tiles) :
                 /\ heuristic(start, dirty_tiles[i])
                      <= heuristic(start, dirty_tiles[j])
                 /\ j < i => heuristic(start, dirty_tiles[i])
                               < heuristic(start, dirty_tiles[j])]

(***************************************************************************)
(* agents.py.  An agent is a record of its fields; the statistics          *)
(* steps_taken and tiles_cleaned, which are only displayed, are left out.  *)
(* act returns the set of its possible outcomes (random.choice picks any   *)
(* element): the agent after the call, the action <<type, data>> returned, *)
(* and the branch of act that returned it.                                 *)
(***************************************************************************)
\* Agent.perceive
perceive(e) ==
    LET x == e.robot_pos[1]
        y == e.robot_pos[2]
    IN  [position |-> <<x, y>>,
         tile_state |-> get_tile_state(e, x, y),
         neighbors |-> get_neighbors(e, x, y),
         all_clean |-> is_all_clean(e)]

Outcome(a, type, data, branch) ==
    [agent |-> a, action |-> <<type, data>>, branch |-> branch]

\* SimpleReflexAgent.__init__
SimpleReflexAgent == [name |-> "Simple Reflex Agent"]

\* mutant: the agent rests whenever the tile is not Dirty
simple_act_rest(a, e, perception) ==
    IF perception.tile_state = DIRTY
    THEN {Outcome(a, "clean", None, "dirty")}
    ELSE {Outcome(a, "wait", None, "rest")}

\* SimpleReflexAgent.act
simple_act(a, e, perception) ==
    IF perception.tile_state = DIRTY
    THEN {Outcome(a, "clean", None, "dirty")}
    ELSE IF perception.neighbors # <<>>
    THEN {Outcome(a, "move", next_pos, "random") :
            next_pos \in Range(perception.neighbors)}
    ELSE {Outcome(a, "wait", None, "rest")}

\* ModelBasedAgent.__init__
ModelBasedAgent(search_algorithm) ==
    [name |-> "Model-Based Agent",
     cleaned_tiles |-> {},
     current_path |-> <<>>,
     search_algorithm |-> search_algorithm]

\* ModelBasedAgent.act, lines 112-121: a random unvisited neighbour, else a
\* random neighbour, else wait
model_explore(a, perception) ==
    LET unvisited_neighbors ==
          SelectSeq(perception.neighbors, LAMBDA n : n \notin a.cleaned_tiles)
    IN  IF unvisited_neighbors # <<>>
        THEN {Outcome(a, "move", n, "random") :
                n \in Range(unvisited_neighbors)}
        ELSE IF perception.neighbors # <<>>
        THEN {Outcome(a, "move", n, "random") :
                n \in Range(perception.neighbors)}
        ELSE {Outcome(a, "wait", None, "rest")}

\* mutant: the first hop is returned but stays at the head of the cached path
model_plan_keep_hop(a, e, perception) ==
    LET nearest_dirty == find_nearest_dirty_tile(e, perception.position)
    IN  IF nearest_dirty = None THEN model_explore(a, perception)
        ELSE LET result == bfs(e, perception.position, nearest_dirty)
             IN  IF ~result.found \/ result.path = <<>>
                 THEN model_explore(a, perception)
                 ELSE {Outcome([a EXCEPT !.current_path = result.path],
                               "move", Head(result.path), "plan")}

\* ModelBasedAgent.act, lines 96-121: plan a path to the nearest dirty tile
\* with the search algorithm of the agent, else move at random
model_plan(a, e, perception) ==
    LET nearest_dirty == find_nearest_dirty_tile(e, perception.position)
    IN  IF nearest_dirty = None THEN model_explore(a, perception)
        ELSE LET result ==
                   IF a.search_algorithm = "bfs"
                   THEN bfs(e, perception.position, nearest_dirty)
                   ELSE astar(e, perception.position, nearest_dirty)
             IN  IF ~result.found THEN model_explore(a, perception)
                 ELSE IF result.path # <<>>
                 THEN {Outcome([a EXCEPT !.current_path = Tail(result.path)],
                               "move", Head(result.path), "plan")}
                 ELSE model_explore([a EXCEPT !.current_path = <<>>],
                                    perception)

\* mutant: a cached path is followed before the tile is looked at
model_act_path_first(a, e, perception) ==
    IF a.current_path # <<>>
    THEN {Outcome([a EXCEPT !.current_path = Tail(@)],
                  "move", Head(a.current_path), "follow")}
    ELSE IF perception.tile_state = DIRTY
    THEN {Outcome([a EXCEPT !.cleaned_tiles = @ \cup {perception.position}],
                  "clean", None, "dirty")}
    ELSE model_plan(a, e, perception)

\* ModelBasedAgent.act
model_act(a, e, perception) ==
    IF perception.tile_state = DIRTY
    THEN {Outcome([a EXCEPT !.cleaned_tiles = @ \cup {perception.position}],
                  "clean", None, "dirty")}
    ELSE IF a.current_path # <<>>
    THEN {Outcome([a EXCEPT !.current_path = Tail(@)],
                  "move", Head(a.current_path), "follow")}
    ELSE model_plan(a, e, perception)

\* UtilityBasedAgent.__init__
UtilityBasedAgent ==
    [name |-> "Utility-Based Agent (A*)",
     current_path |-> <<>>,
     current_goal |-> None]

\* mutant: with no path to the nearest dirty tile the agent moves to a
\* neighbour
utility_plan_wander(a, e, perception, stale) ==
    LET nearest_dirty == find_nearest_dirty_tile(e, perception.position)
        found == /\ nearest_dirty # None
                 /\ astar(e, perception.position, nearest_dirty).found
    IN  IF nearest_dirty = None THEN {Outcome(a, "wait", None, "rest")}
        ELSE IF found
        THEN LET path == astar(e, perception.position, nearest_dirty).path
             IN  {Outcome([a EXCEPT !.current_path = Tail(path),
                                    !.current_goal = nearest_dirty],
                          "move", Head(path), "plan")}
        ELSE IF perception.neighbors # <<>>
        THEN {Outcome(a, "move", n, "random") :
                n \in Range(perception.neighbors)}
        ELSE {Outcome(a, "wait", None, "rest")}

\* UtilityBasedAgent.act, lines 160-175: plan a path to the nearest dirty
\* tile with astar; stale tells that the cached goal was found not Dirty
utility_plan(a, e, perception, stale) ==
    LET nearest_dirty == find_nearest_dirty_tile(e, perception.position)
        rest == IF stale THEN "stale" ELSE "rest"
    IN  IF nearest_dirty = None THEN {Outcome(a, "wait", None, rest)}
        ELSE LET result == astar(e, perception.position, nearest_dirty)
             IN  IF ~result.found THEN {Outcome(a, "wait", None, rest)}
                 ELSE LET planned == [a EXCEPT !.current_path = result.path,
                                               !.current_goal = nearest_dirty]
                      IN  IF result.path # <<>>
                          THEN {Outcome([planned EXCEPT
                                           !.current_path = Tail(@)],
                                        "move", Head(result.path),
                                        IF stale THEN "stale" ELSE "plan")}
                          ELSE {Outcome(planned, "wait", None, rest)}

\* UtilityBasedAgent.act
utility_act(a, e, perception) ==
    IF perception.tile_state = DIRTY
    THEN {Outcome([a EXCEPT !.current_path = <<>>, !.current_goal = None],
                  "clean", None, "dirty")}
    ELSE IF a.current_path # <<>> /\ a.current_goal # None
    THEN IF get_tile_state(e, a.current_goal[1], a.current_goal[2]) = DIRTY
         THEN {Outcome([a EXCEPT !.current_path = Tail(@)],
                       "move", Head(a.current_path), "follow")}
         ELSE utility_plan([a EXCEPT !.current_path = <<>>,
                                     !.current_goal = None],
                           e, perception, TRUE)
    ELSE utility_plan(a, e, perception, FALSE)

\* GoalBasedAgent.__init__
GoalBasedAgent ==
    [name |-> "Goal-Based Agent (DFS)",
     current_path |-> <<>>]

\* mutant: the target is the nearest dirty tile
goal_act_nearest(a, e, perception) ==
    IF perception.tile_state = DIRTY
    THEN {Outcome([a EXCEPT !.current_path = <<>>], "clean", None, "dirty")}
    ELSE IF a.current_path # <<>>
    THEN {Outcome([a EXCEPT !.current_path = Tail(@)],
                  "move", Head(a.current_path), "follow")}
    ELSE LET target == find_nearest_dirty_tile(e, perception.position)
         IN  IF target = None THEN {Outcome(a, "wait", None, "rest")}
             ELSE LET result == dfs(e, perception.position, target)
                  IN  IF ~result.found
                      THEN {Outcome(a, "wait", None, "rest")}
                      ELSE IF result.path # <<>>
                      THEN {Outcome([a EXCEPT !.current_path =
                                                 Tail(result.path)],
                                    "move", Head(result.path), "plan")}
                      ELSE {Outcome([a EXCEPT !.current_path = <<>>],
                                    "wait", None, "rest")}

\* GoalBasedAgent.act
goal_act(a, e, perception) ==
    IF perception.tile_state = DIRTY
    THEN {Outcome([a EXCEPT !.current_path = <<>>], "clean", None, "dirty")}
    ELSE IF a.current_path # <<>>
    THEN {Outcome([a EXCEPT !.current_path = Tail(@)],
                  "move", Head(a.current_path), "follow")}
    ELSE LET dirty_tiles == get_dirty_tiles(e)
         IN  IF dirty_tiles = <<>> THEN {Outcome(a, "wait", None, "rest")}
             ELSE LET target == dirty_tiles[1]
                      result == dfs(e, perception.position, target)
                  IN  IF ~result.found
                      THEN {Outcome(a, "wait", None, "rest")}
                      ELSE IF result.path # <<>>
                      THEN {Outcome([a EXCEPT !.current_path =
                                                 Tail(result.path)],
                                    "move", Head(result.path), "plan")}
                      ELSE {Outcome([a EXCEPT !.current_path = <<>>],
                                    "wait", None, "rest")}

\* the act method of the agent at index i of VacuumSimulation.agents
act(i, a, e, perception) ==
    CASE i = 0 -> simple_act(a, e, perception)
      [] i = 1 -> model_act(a, e, perception)
      [] i = 2 -> utility_act(a, e, perception)
      [] i = 3 -> goal_act(a, e, perception)

\* mutant: reset leaves the agent as it is
agent_reset_keep(i, a) == a

\* the reset method of the agent at index i
agent_reset(i, a) ==
    CASE i = 0 -> a
      [] i = 1 -> [a EXCEPT !.cleaned_tiles = {}, !.current_path = <<>>]
      [] i = 2 -> [a EXCEPT !.current_path = <<>>, !.current_goal = None]
      [] i = 3 -> [a EXCEPT !.current_path = <<>>]

(***************************************************************************)
(* main.py: VacuumSimulation.  The simulation is a record sim of the       *)
(* agents (indexed from 0 as in the source), the index of the current one  *)
(* and the flags is_running and is_complete; the environment is env.       *)
(***************************************************************************)
\* VacuumSimulation.__init__, the fields besides the environment and the UI
VacuumSimulation ==
    [agents |-> (0 :> SimpleReflexAgent @@ 1 :> ModelBasedAgent("bfs")
                 @@ 2 :> UtilityBasedAgent @@ 3 :> GoalBasedAgent),
     current_agent_index |-> 2,
     is_running |-> FALSE,
     is_complete |-> FALSE]

current_agent(s) == s.agents[s.current_agent_index]

(***************************************************************************)
(* The calls made on the environment, recorded for the properties: the     *)
(* last operation, its arguments, its return value, the operation before   *)
(* it, and the number of resets of the simulation so far.                  *)
(***************************************************************************)
NoOp ==
    [op |-> "none", args |-> None, ret |-> FALSE, prev_op |-> "none",
     resets |-> 0]

(***************************************************************************)
(* Specification of the search algorithms: one call of bfs, dfs or astar   *)
(* on a freshly initialised environment, one loop iteration per step.      *)
(***************************************************************************)
\* the grids of every size up to MaxWidth x MaxHeight with at most
\* MaxObstacles obstacles, built with dirt_probability 0 (no cell Dirty) or
\* 1 (every cell that is not an obstacle Dirty)
SearchEnvironments ==
    UNION {LET free == Cells(wh[1], wh[2]) \ {<<0, 0>>}
           IN  UNION {{initialize_grid(wh[1], wh[2], o, {}),
                       initialize_grid(wh[1], wh[2], o, free \ o)} :
                        o \in {ob \in SUBSET free :
                                 Cardinality(ob) <= MaxObstacles}} :
             wh \in (1..MaxWidth) \X (1..MaxHeight)}

SearchInit ==
    /\ env \in SearchEnvironments
    /\ run = NoCall
    /\ last = NoOp
    /\ sim = VacuumSimulation

SearchCall(alg) ==
    /\ run.pc = "idle"
    /\ \E start \in Cells(env.width, env.height) :
         \E goal \in Cells(env.width, env.height) :
           run' = search_begin(alg, start, goal)
    /\ UNCHANGED <<env, last, sim>>

BfsCall == SearchCall("bfs")

DfsCall == SearchCall("dfs")

AstarCall == SearchCall("astar")

\* an iteration of the while-loop of the running call
Iteration(alg) ==
    /\ run.pc = "loop"
    /\ run.alg = alg
    /\ run.frontier # <<>>
    /\ run' = search_step(env, run)
    /\ UNCHANGED <<env, last, sim>>

BfsIteration == Iteration("bfs")

DfsIteration == Iteration("dfs")

AstarIteration == Iteration("astar")

\* the while-condition is false: the call returns not found
Exhausted(alg) ==
    /\ run.pc = "loop"
    /\ run.alg = alg
    /\ run.frontier = <<>>
    /\ run' = search_step(env, run)
    /\ UNCHANGED <<env, last, sim>>

BfsExhausted == Exhausted("bfs")

DfsExhausted == Exhausted("dfs")

AstarExhausted == Exhausted("astar")

SearchNext ==
    \/ BfsCall
    \/ DfsCall
    \/ AstarCall
    \/ BfsIteration
    \/ DfsIteration
    \/ AstarIteration
    \/ BfsExhausted
    \/ DfsExhausted
    \/ AstarExhausted

SearchSpec == SearchInit /\ [][SearchNext]_vars

\* the loop is always scheduled: a call in progress takes its next step
SearchLive == SearchSpec /\ WF_vars(SearchNext)

(***************************************************************************)
(* Reference notions for the properties, independent of the algorithms.    *)
(***************************************************************************)
Adjacent(p, q) == abs(p[1] - q[1]) + abs(p[2] - q[2]) = 1

WalkableCells(e) ==
    {c \in Cells(e.width, e.height) : e.grid[c[2]][c[1]] # OBSTACLE}

\* the walkable cells one step away from a cell of S
Step(e, S) == {c \in WalkableCells(e) : \E b \in S : Adjacent(b, c)}

\* breadth-first layers from a: seen holds the cells within d steps, layer
\* those exactly d steps away.  The result is the set of cells reachable
\* from a and, for b among them, the number of steps to b (else -1).
RECURSIVE Layers(_, _, _, _, _)
Layers(e, seen, layer, b, d) ==
    LET next == Step(e, layer) \ seen
    IN  IF next = {} THEN [cells |-> seen, dist |-> -1]
        ELSE IF b \in next
             THEN [cells |-> Layers(e, seen \cup next, next, b, d + 1).cells,
                   dist |-> d + 1]
        ELSE Layers(e, seen \cup next, next, b, d + 1)

Reachable(e, a) == Layers(e, {a}, {a}, a, 0).cells

\* the shortest hop distance from a to b, for b reachable from a
Distance(e, a, b) ==
    IF a = b THEN 0 ELSE Layers(e, {a}, {a}, b, 0).dist

Returned(alg) == run.pc = "returned" /\ run.alg = alg

Algorithms == {"bfs", "dfs", "astar"}

(***************************************************************************)
(* Properties of the search algorithms (specification SearchSpec).         *)
(***************************************************************************)

\* C1: whenever bfs between two walkable cells returns found, the length of
\* its path is the shortest hop distance between them, as computed by the
\* layered reachability oracle Distance.
C1_BfsShortest ==
    (/\ Returned("bfs")
     /\ run.start \in WalkableCells(env)
     /\ run.goal \in WalkableCells(env)
     /\ run.result.found)
        => Len(run.result.path) = Distance(env, run.start, run.goal)

\* a bfs call that went around an obstacle to a goal three or more hops away
C1_Witness ==
    /\ Returned("bfs")
    /\ run.result.found
    /\ run.start \in WalkableCells(env)
    /\ Len(run.result.path) >= 3
    /\ Len(run.result.path) > heuristic(run.start, run.goal)

\* C2: astar and bfs agree on found for every start and goal, and when found
\* the astar path is no longer than, and as long as, the bfs path.
C2_AstarAgreesWithBfs ==
    Returned("astar") =>
        LET b == bfs(env, run.start, run.goal)
        IN  /\ run.result.found = b.found
            /\ run.result.found =>
                 /\ Len(run.result.path) <= Len(b.path)
                 /\ Len(run.result.path) = Len(b.path)

\* an astar call that found a path of three or more hops around an obstacle
C2_Witness ==
    /\ Returned("astar")
    /\ run.result.found
    /\ Len(run.result.path) >= 3
    /\ Len(run.result.path) > heuristic(run.start, run.goal)

\* C3: for every algorithm and a walkable start other than the goal, found
\* is true exactly when the goal is reachable from start.
C3_FoundIffReachable ==
    (/\ run.pc = "returned"
     /\ run.start # run.goal
     /\ run.start \in WalkableCells(env))
        => (run.result.found <=> run.goal \in Reachable(env, run.start))

\* a dfs call that returned not found for a walkable goal behind obstacles
C3_Witness ==
    /\ Returned("dfs")
    /\ ~run.result.found
    /\ run.start \in WalkableCells(env)
    /\ run.goal \in WalkableCells(env)
    /\ Cardinality(run.explored) >= 2

\* C4: a found path to a goal other than start is a valid walk: start is
\* not on it, it begins at a walkable neighbour of start, consecutive cells
\* are orthogonally adjacent, every cell is walkable, it ends at the goal,
\* and path_cost is its number of cells.
C4_PathIsValidWalk ==
    (/\ run.pc = "returned"
     /\ run.result.found
     /\ run.start # run.goal)
        => LET path == run.result.path
           IN  /\ Len(path) >= 1
               /\ \A i \in 1..Len(path) : path[i] # run.start
               /\ Adjacent(run.start, path[1])
               /\ \A i \in 1..(Len(path) - 1) : Adjacent(path[i], path[i + 1])
               /\ \A i \in 1..Len(path) : path[i] \in WalkableCells(env)
               /\ path[Len(path)] = run.goal
               /\ run.result.path_cost = Len(path)

\* a dfs call whose path is longer than the shortest one
C4_Witness ==
    /\ Returned("dfs")
    /\ run.result.found
    /\ run.start # run.goal
    /\ Len(run.result.path) > Distance(env, run.start, run.goal)

\* C5: when the goal is not reachable from start, every algorithm returns
\* found = false with an empty path and nodes_expanded equal to the number
\* of cells reachable from start, start included.
C5_UnreachableGoal ==
    (/\ run.pc = "returned"
     /\ run.goal \notin Reachable(env, run.start))
        => /\ ~run.result.found
           /\ run.result.path = <<>>
           /\ run.result.nodes_expanded = Cardinality(Reachable(env, run.start))

\* an astar call for a walkable goal enclosed by obstacles that expanded the
\* three or more cells of the start's component
C5_Witness ==
    /\ Returned("astar")
    /\ run.goal \in WalkableCells(env)
    /\ run.goal \notin Reachable(env, run.start)
    /\ run.result.nodes_expanded >= 3

\* C6: a call with start == goal returns at once with found = true, an
\* empty path, zero cost and nothing expanded, without a loop iteration.
C6_StartIsGoal ==
    (run.pc # "idle" /\ run.start = run.goal)
        => /\ run.pc = "returned"
           /\ run.result.found
           /\ run.result.path = <<>>
           /\ run.result.path_cost = 0
           /\ run.result.nodes_expanded = 0
           /\ run.result.frontier_history = <<>>
           /\ run.explored = {}

\* a dfs call with start == goal on an obstacle cell of a grid with dirt
C6_Witness ==
    /\ Returned("dfs")
    /\ run.start = run.goal
    /\ run.start \notin WalkableCells(env)
    /\ env.total_dirt > 0

\* a natural number that bounds the steps a call has left: two for every
\* unit by which a cell's recorded cost can still drop (astar) or for every
\* cell not yet discovered (bfs, dfs), one for every frontier entry, and one
\* for the return
RECURSIVE GapSum(_, _, _)
GapSum(e, s, i) ==
    IF i >= e.width * e.height THEN 0
    ELSE LET c == <<i % e.width, i \div e.width>>
             gap == IF s.alg = "astar"
                    THEN (IF c \in DOMAIN s.g_score THEN s.g_score[c]
                          ELSE e.width * e.height + 1)
                    ELSE (IF c \in DOMAIN s.came_from THEN 0 ELSE 1)
         IN  gap + GapSum(e, s, i + 1)

Variant(e, s) ==
    2 * GapSum(e, s, 0) + Len(s.frontier) + (IF s.pc = "loop" THEN 1 ELSE 0)

\* C7: every call of bfs, dfs and astar terminates: while a call is in its
\* loop its next step (an iteration, or the return on an empty frontier)
\* can be taken and changes the state, and every such step strictly
\* decreases the natural number Variant, so the loop cannot run forever.
C7_Terminates ==
    /\ [](run.pc = "loop" => search_step(env, run) # run)
    /\ [][run.pc = "loop" =>
            /\ Variant(env, run') < Variant(env, run)
            /\ Variant(env, run') >= 0]_vars

\* the same as a liveness property of SearchLive, where the loop is always
\* scheduled: a call in its loop eventually returns
C7_EventuallyReturns == (run.pc = "loop") ~> (run.pc = "returned")

\* a call for an unreachable goal that returned by exhausting its frontier
\* after three or more iterations
C7_Witness ==
    /\ run.pc = "returned"
    /\ ~run.result.found
    /\ run.frontier = <<>>
    /\ Len(run.result.frontier_history) >= 3

(***************************************************************************)
(* Specification of the environment: move_robot and clean_current_tile     *)
(* called in any order with any arguments.                                 *)
(***************************************************************************)
EnvEnvironments ==
    UNION {Environments(wh[1], wh[2], EnvObstacles, EnvDirt) :
             wh \in (1..EnvWidth) \X (1..EnvHeight)}

EnvInit ==
    /\ env \in EnvEnvironments
    /\ run = NoCall
    /\ last = NoOp
    /\ sim = VacuumSimulation

Called(op, args, ret) ==
    [op |-> op, args |-> args, ret |-> ret, prev_op |-> last.op,
     resets |-> last.resets]

\* the arguments range over the grid and one cell beyond it on every side
MoveRobot ==
    \E new_x \in (-1)..env.width, new_y \in (-1)..env.height :
        LET r == move_robot(env, new_x, new_y)
        IN  /\ env' = r.env
            /\ last' = Called("move_robot", <<new_x, new_y>>, r.ret)
            /\ UNCHANGED <<run, sim>>

CleanCurrentTile ==
    LET r == clean_current_tile(env)
    IN  /\ env' = r.env
        /\ last' = Called("clean_current_tile", None, r.ret)
        /\ UNCHANGED <<run, sim>>

EnvNext ==
    \/ MoveRobot
    \/ CleanCurrentTile

EnvSpec == EnvInit /\ [][EnvNext]_vars

(***************************************************************************)
(* Properties of the environment (specification EnvSpec).                  *)
(***************************************************************************)

\* C8: after any sequence of move_robot and clean_current_tile calls with
\* arbitrary arguments, cleaned_dirt <= total_dirt and the robot is on an
\* in-bounds cell that is not an Obstacle.
C8_CountersAndPosition ==
    /\ env.cleaned_dirt <= env.total_dirt
    /\ is_valid_position(env, env.robot_pos[1], env.robot_pos[2])
    /\ env.grid[env.robot_pos[2]][env.robot_pos[1]] # OBSTACLE

\* every Dirty cell has been cleaned, and the last call was a move onto an
\* obstacle or off the grid that was refused
C8_Witness ==
    /\ env.total_dirt >= 2
    /\ env.cleaned_dirt = env.total_dirt
    /\ env.robot_pos # <<0, 0>>
    /\ last.op = "move_robot"
    /\ ~last.ret

\* C9: a clean_current_tile call returns True and adds one to cleaned_dirt
\* exactly when the robot's tile was Dirty, and a second call made right
\* after it, with no move in between, returns False and changes neither the
\* grid nor cleaned_dirt.
C9_CleanIdempotent ==
    [][last'.op = "clean_current_tile" =>
         LET x == env.robot_pos[1]
             y == env.robot_pos[2]
             wasDirty == env.grid[y][x] = DIRTY
         IN  /\ last'.ret = wasDirty
             /\ env'.cleaned_dirt = env.cleaned_dirt + (IF wasDirty THEN 1 ELSE 0)
             /\ env'.grid[y][x] # DIRTY
             /\ last.op = "clean_current_tile" =>
                   /\ ~last'.ret
                   /\ env'.grid = env.grid
                   /\ env'.cleaned_dirt = env.cleaned_dirt]_vars

\* the second of two clean calls in a row, on a tile the first one cleaned
C9_Witness ==
    /\ last.op = "clean_current_tile"
    /\ last.prev_op = "clean_current_tile"
    /\ ~last.ret
    /\ env.cleaned_dirt >= 1
    /\ env.robot_pos # <<0, 0>>

\* C10: move_robot(x, y) returns True and puts the robot on (x, y) exactly
\* when (x, y) is in-bounds and not an Obstacle; otherwise it returns False
\* and the robot stays; the grid and both counters are unchanged either way.
C10_MoveRobot ==
    [][last'.op = "move_robot" =>
         LET x == last'.args[1]
             y == last'.args[2]
             ok == /\ 0 <= x /\ x < env.width /\ 0 <= y /\ y < env.height
                   /\ env.grid[y][x] # OBSTACLE
         IN  /\ last'.ret = ok
             /\ ok => env'.robot_pos = <<x, y>>
             /\ ~ok => env'.robot_pos = env.robot_pos
             /\ (last'.ret /\ env'.robot_pos = <<x, y>>) <=> ok
             /\ env'.grid = env.grid
             /\ env'.total_dirt = env.total_dirt
             /\ env'.cleaned_dirt = env.cleaned_dirt
             /\ env'.width = env.width
             /\ env'.height = env.height]_vars

\* a move onto an Obstacle cell was refused after an accepted move onto a
\* Dirty cell
C10_Witness ==
    /\ last.op = "move_robot"
    /\ last.prev_op = "move_robot"
    /\ ~last.ret
    /\ is_valid_position(env, last.args[1], last.args[2])
    /\ env.grid[last.args[2]][last.args[1]] = OBSTACLE
    /\ env.grid[env.robot_pos[2]][env.robot_pos[1]] = DIRTY

(***************************************************************************)
(* Specification of the simulation: step, reset and select_agent of        *)
(* VacuumSimulation called in any order (the keys R and 1-4 may be pressed *)
(* between any two steps of the loop of run).                              *)
(***************************************************************************)
\* mutant: the new grid keeps the old count of cleaned tiles
environment_reset_keep_count(e) ==
    {[n EXCEPT !.cleaned_dirt = e.cleaned_dirt] :
       n \in Environments(e.width, e.height, SimObstacles, SimDirt)}

\* Environment.reset: __init__ is run again with the same width and height,
\* the random draws give any grid
environment_reset(e) ==
    Environments(e.width, e.height, SimObstacles, SimDirt)

SimEnvironments ==
    UNION {Environments(wh[1], wh[2], SimObstacles, SimDirt) :
             wh \in (1..SimWidth) \X (1..SimHeight)}

SimInit ==
    /\ env \in SimEnvironments
    /\ sim = VacuumSimulation
    /\ run = NoCall
    /\ last = NoOp

\* VacuumSimulation.step, lines 72-95: the action is executed
execute(s, e, outcome) ==
    LET i == s.current_agent_index
        acted == [s EXCEPT !.agents[i] = outcome.agent]
        action_type == outcome.action[1]
        action_data == outcome.action[2]
    IN  CASE action_type = "clean" ->
               LET r == clean_current_tile(e)
               IN  [sim |-> acted, env |-> r.env, ret |-> r.ret]
          [] action_type = "move" ->
               IF action_data # None
               THEN LET r == move_robot(e, action_data[1], action_data[2])
                    IN  [sim |-> acted, env |-> r.env, ret |-> r.ret]
               ELSE [sim |-> acted, env |-> e, ret |-> FALSE]
          [] action_type = "wait" ->
               IF is_all_clean(e)
               THEN [sim |-> [acted EXCEPT !.is_complete = TRUE,
                                           !.is_running = FALSE],
                     env |-> e, ret |-> TRUE]
               ELSE [sim |-> acted, env |-> e, ret |-> FALSE]

\* VacuumSimulation.step: nothing once complete, else perceive, act, execute
SimStep ==
    IF sim.is_complete
    THEN UNCHANGED vars
    ELSE \E outcome \in act(sim.current_agent_index, current_agent(sim),
                            env, perceive(env)) :
           LET r == execute(sim, env, outcome)
           IN  /\ sim' = r.sim
               /\ env' = r.env
               /\ last' = Called("step",
                                 [action |-> outcome.action,
                                  branch |-> outcome.branch], r.ret)
               /\ UNCHANGED run

\* VacuumSimulation.reset: the environment and the current agent are reset
simulation_reset(s) ==
    [s EXCEPT !.agents[s.current_agent_index] =
                 agent_reset(s.current_agent_index, @),
              !.is_running = FALSE,
              !.is_complete = FALSE]

SimReset ==
    /\ last.resets < MaxResets
    /\ env' \in environment_reset(env)
    /\ sim' = simulation_reset(sim)
    /\ last' = [Called("reset", None, TRUE) EXCEPT !.resets = @ + 1]
    /\ UNCHANGED run

\* VacuumSimulation.select_agent; the index ranges over the four agents and
\* one index beyond them on either side
SelectAgent ==
    \E index \in (-1)..4 :
        /\ IF 0 <= index /\ index < 4
           THEN /\ last.resets < MaxResets
                /\ env' \in environment_reset(env)
                /\ sim' = simulation_reset(
                            [sim EXCEPT !.current_agent_index = index])
                /\ last' = [Called("select_agent", index, TRUE)
                              EXCEPT !.resets = @ + 1]
           ELSE /\ UNCHANGED <<env, sim>>
                /\ last' = Called("select_agent", index, FALSE)
        /\ UNCHANGED run

SimNext ==
    \/ SimStep
    \/ SimReset
    \/ SelectAgent

SimSpec == SimInit /\ [][SimNext]_vars

(***************************************************************************)
(* C11: between resets, whatever the policy, a step of the simulation      *)
(* leaves the size of the grid as it is and changes no tile, except that   *)
(* the tile at the robot's position goes from Dirty to Clean when the      *)
(* action is clean and clean_current_tile returns True.  So an Obstacle    *)
(* stays an Obstacle, no cell becomes an Obstacle and no Clean cell        *)
(* becomes Dirty.                                                          *)
(***************************************************************************)
C11_TilesOnlyCleaned ==
    [][last'.op = "step" =>
         /\ env'.width = env.width
         /\ env'.height = env.height
         /\ \A c \in Cells(env.width, env.height) :
              LET before == env.grid[c[2]][c[1]]
                  after == env'.grid[c[2]][c[1]]
              IN  /\ before = OBSTACLE <=> after = OBSTACLE
                  /\ before = CLEAN => after = CLEAN
                  /\ before # after =>
                       /\ before = DIRTY
                       /\ after = CLEAN
                       /\ c = env.robot_pos
                       /\ last'.args.action[1] = "clean"
                       /\ last'.ret = TRUE]_vars

\* a step has cleaned a tile of a grid that holds an obstacle and more dirt
C11_Witness ==
    /\ last.op = "step"
    /\ last.args.action[1] = "clean"
    /\ last.ret = TRUE
    /\ get_tile_state(env, env.robot_pos[1], env.robot_pos[2]) = CLEAN
    /\ env.cleaned_dirt < env.total_dirt
    /\ \E c \in Cells(env.width, env.height) :
         get_tile_state(env, c[1], c[2]) = OBSTACLE

(***************************************************************************)
(* C12: for each of the four agents, in every state the simulation         *)
(* reaches, cached path or not: when the tile perceived at the robot's     *)
(* position is Dirty, act returns the clean action.                        *)
(***************************************************************************)
C12_DirtyIsCleaned ==
    [][last'.op = "step" /\ perceive(env).tile_state = DIRTY =>
         last'.args.action = <<"clean", None>>]_vars

\* a step has cleaned a tile while the agent held a cached path
C12_Witness ==
    /\ last.op = "step"
    /\ last.args.action = <<"clean", None>>
    /\ last.ret = TRUE
    /\ sim.current_agent_index = 1
    /\ current_agent(sim).current_path # <<>>

(***************************************************************************)
(* C13: for the agents that keep a cached path or goal (ModelBasedAgent,   *)
(* UtilityBasedAgent, GoalBasedAgent): right after an act call that        *)
(* returned the clean action, the cached path of the agent is empty and    *)
(* its cached goal, if it has one, is unset.                               *)
(***************************************************************************)
C13_CleanClearsCache ==
    last.op = "step" /\ last.args.action[1] = "clean"
        /\ sim.current_agent_index \in {1, 2, 3} =>
      /\ current_agent(sim).current_path = <<>>
      /\ sim.current_agent_index = 2 => current_agent(sim).current_goal = None

(***************************************************************************)
(* C14: on a grid initialised with no Dirty cell, is_all_clean() is true   *)
(* at once, and the first act call of a fresh agent at the start cell      *)
(* returns wait, for each of the four agents.                              *)
(***************************************************************************)
\* the current agent is as reset leaves it and the environment as
\* initialised
FreshRun ==
    /\ env.robot_pos = <<0, 0>>
    /\ env.cleaned_dirt = 0
    /\ current_agent(sim) =
         agent_reset(sim.current_agent_index, current_agent(sim))

C14_ZeroDirtWaits ==
    /\ [](env.total_dirt = 0 => is_all_clean(env))
    /\ [][last'.op = "step" /\ FreshRun /\ env.total_dirt = 0 =>
            last'.args.action = <<"wait", None>>]_vars

(***************************************************************************)
(* C14 as the code has it: on a grid initialised with no Dirty cell,       *)
(* is_all_clean() is true at once; the first act call of a fresh           *)
(* UtilityBasedAgent or GoalBasedAgent returns wait; the first act call of *)
(* a fresh SimpleReflexAgent or ModelBasedAgent returns a move to a        *)
(* walkable neighbour of the start cell, and wait only when the start cell *)
(* has none.                                                               *)
(***************************************************************************)
C14_ZeroDirtFirstAct ==
    /\ [](env.total_dirt = 0 => is_all_clean(env))
    /\ [][last'.op = "step" /\ FreshRun /\ env.total_dirt = 0 =>
            LET action == last'.args.action
                around == {c \in WalkableCells(env) :
                             Adjacent(c, env.robot_pos)}
            IN  /\ sim.current_agent_index \in {2, 3} =>
                     action = <<"wait", None>>
                /\ sim.current_agent_index \in {0, 1} =>
                     IF around = {} THEN action = <<"wait", None>>
                     ELSE action[1] = "move" /\ action[2] \in around]_vars

\* the first step of a SimpleReflexAgent on a grid without dirt was a move
C14_Witness ==
    /\ env.total_dirt = 0
    /\ last.op = "step"
    /\ last.prev_op = "select_agent"
    /\ sim.current_agent_index = 0
    /\ last.args.action[1] = "move"
    /\ env.robot_pos = last.args.action[2]
    /\ Adjacent(env.robot_pos, <<0, 0>>)

(***************************************************************************)
(* C15: with UtilityBasedAgent, on a grid whose dirt is all behind a wall  *)
(* of obstacles (no Dirty cell can be reached from the robot), every step  *)
(* of the loop returns wait, for ever: act has an outcome and every        *)
(* outcome is wait, the step changes neither the environment (position,    *)
(* tiles, counters) nor the simulation, is_all_clean() is false, and the   *)
(* state after the step is walled off as before.                           *)
(***************************************************************************)
WalledOff ==
    /\ sim.current_agent_index = 2
    /\ ~sim.is_complete
    /\ get_dirty_tiles(env) # <<>>
    /\ Range(get_dirty_tiles(env)) \cap Reachable(env, env.robot_pos) = {}

C15_WalledOffWaits ==
    /\ [](WalledOff =>
            LET outcomes == act(2, current_agent(sim), env, perceive(env))
            IN  /\ ~is_all_clean(env)
                /\ outcomes # {}
                /\ \A o \in outcomes : o.action = <<"wait", None>>)
    /\ [][WalledOff /\ last'.op = "step" =>
            /\ last'.args.action = <<"wait", None>>
            /\ env' = env
            /\ sim' = sim
            /\ WalledOff']_vars

\* two steps in a row have waited in front of a wall that hides the only
\* Dirty cell
C15_Witness ==
    /\ WalledOff
    /\ Len(get_dirty_tiles(env)) = 1
    /\ \E c \in Cells(env.width, env.height) :
         get_tile_state(env, c[1], c[2]) = OBSTACLE
    /\ last.op = "step"
    /\ last.prev_op = "step"
    /\ last.args.action = <<"wait", None>>
    /\ env.robot_pos = <<0, 0>>
    /\ env.cleaned_dirt = 0

(***************************************************************************)
(* C16: for each of the four agents, in every state the step loop reaches: *)
(* when act has returned the wait action, no Dirty cell can be reached     *)
(* from the robot's position through walkable cells.                       *)
(***************************************************************************)
C16_WaitMeansNoReachableDirt ==
    last.op = "step" /\ last.args.action[1] = "wait" =>
      Range(get_dirty_tiles(env)) \cap Reachable(env, env.robot_pos) = {}

(***************************************************************************)
(* C17: select_agent(i) with a valid index, after any steps, resets and    *)
(* selections, makes agent i the current agent, resets the environment     *)
(* (robot at the start cell, cleaned_dirt = 0), leaves the chosen agent    *)
(* without per-run state (cached path, goal, cleaned tiles), and leaves    *)
(* the agent that was current before without per-run state as well; with   *)
(* an index out of range it changes nothing.                               *)
(***************************************************************************)
\* the agent at index i holds no cached path, goal or cleaned tile
NoRunState(s, i) == s.agents[i] = agent_reset(i, s.agents[i])

C17_SelectAgentDiscardsState ==
    [][last'.op = "select_agent" =>
         IF last'.ret
         THEN /\ sim'.current_agent_index = last'.args
              /\ env'.robot_pos = <<0, 0>>
              /\ env'.cleaned_dirt = 0
              /\ env'.width = env.width
              /\ env'.height = env.height
              /\ NoRunState(sim', sim'.current_agent_index)
              /\ NoRunState(sim', sim.current_agent_index)
         ELSE env' = env /\ sim' = sim]_vars

(***************************************************************************)
(* Specification of the search scenario of the 3x3 grid without obstacles: *)
(* one call of bfs, dfs or astar between any two cells of that grid.       *)
(***************************************************************************)
ScenarioGrid == initialize_grid(3, 3, {}, {})

ScenarioInit ==
    /\ env = ScenarioGrid
    /\ run = NoCall
    /\ last = NoOp
    /\ sim = VacuumSimulation

ScenarioNext ==
    \/ BfsCall
    \/ DfsCall
    \/ AstarCall
    \/ BfsIteration
    \/ DfsIteration
    \/ AstarIteration

ScenarioSpec == ScenarioInit /\ [][ScenarioNext]_vars

(***************************************************************************)
(* C18: on the 3x3 grid without obstacles, bfs from (0,0) to (2,2) returns *)
(* found with a path of length 4, and the path is (1,0),(2,0),(2,1),(2,2): *)
(* the route fixed by the neighbour order up, right, down, left and the    *)
(* first-in first-out queue.                                               *)
(***************************************************************************)
C18_BfsCornerToCorner ==
    Returned("bfs") /\ run.start = <<0, 0>> /\ run.goal = <<2, 2>> =>
      /\ run.result.found = TRUE
      /\ Len(run.result.path) = 4
      /\ run.result.path = << <<1, 0>>, <<2, 0>>, <<2, 1>>, <<2, 2>> >>
      /\ run.result = bfs(ScenarioGrid, <<0, 0>>, <<2, 2>>)

\* the call bfs((0,0), (2,2)) on the 3x3 grid has returned
C18_Witness ==
    /\ env = ScenarioGrid
    /\ Returned("bfs")
    /\ run.start = <<0, 0>>
    /\ run.goal = <<2, 2>>
    /\ run.result.found

(***************************************************************************)
(* Specification of the queries of the environment: get_neighbors and      *)
(* get_tile_state called on a freshly initialised environment with any     *)
(* coordinate of the grid or up to two cells beyond it.  The queries only  *)
(* read the environment, so a behaviour makes one call.                    *)
(***************************************************************************)
GetNeighbors ==
    \E x \in (-2)..(env.width + 1), y \in (-2)..(env.height + 1) :
        /\ last.op = "none"
        /\ last' = Called("get_neighbors", <<x, y>>, get_neighbors(env, x, y))
        /\ UNCHANGED <<env, run, sim>>

GetTileState ==
    \E x \in (-2)..(env.width + 1), y \in (-2)..(env.height + 1) :
        /\ last.op = "none"
        /\ last' = Called("get_tile_state", <<x, y>>,
                          get_tile_state(env, x, y))
        /\ UNCHANGED <<env, run, sim>>

QueryNext ==
    \/ GetNeighbors
    \/ GetTileState

QuerySpec == EnvInit /\ [][QueryNext]_vars

(***************************************************************************)
(* C19: for every coordinate (x, y), inside the grid or not,               *)
(* get_neighbors(x, y) returns exactly the cells next to (x, y) up, right, *)
(* down or left that are inside the grid and not Obstacle, each once, in   *)
(* the order up (y-1), right (x+1), down (y+1), left (x-1); no cell        *)
(* outside the grid is returned, and get_tile_state gives Obstacle for a   *)
(* coordinate outside the grid and the tile for one inside.                *)
(***************************************************************************)
\* the place of cell c in the order up, right, down, left around (x, y)
Turn(x, y, c) ==
    CASE c = <<x, y - 1>> -> 1
      [] c = <<x + 1, y>> -> 2
      [] c = <<x, y + 1>> -> 3
      [] c = <<x - 1, y>> -> 4
      [] OTHER -> 0

C19_Neighbors ==
    LET x == last.args[1]
        y == last.args[2]
        inside == <<x, y>> \in Cells(env.width, env.height)
    IN  /\ last.op = "get_neighbors" =>
              LET neighbors == last.ret
                  expected == {c \in WalkableCells(env) :
                                 Adjacent(c, <<x, y>>)}
              IN  /\ Range(neighbors) = expected
                  /\ Len(neighbors) = Cardinality(expected)
                  /\ \A i, j \in 1..Len(neighbors) :
                       i < j => Turn(x, y, neighbors[i])
                                  < Turn(x, y, neighbors[j])
                  /\ \A c \in Range(neighbors) :
                       /\ c \in Cells(env.width, env.height)
                       /\ Turn(x, y, c) > 0
        /\ last.op = "get_tile_state" =>
              last.ret = IF inside THEN env.grid[y][x] ELSE OBSTACLE

\* get_neighbors was called on a coordinate outside a grid that holds an
\* obstacle, and returned the cell of the grid next to the coordinate
C19_Witness ==
    /\ last.op = "get_neighbors"
    /\ last.args \notin Cells(env.width, env.height)
    /\ Len(last.ret) = 1
    /\ Adjacent(last.ret[1], last.args)
    /\ \E c \in Cells(env.width, env.height) :
         env.grid[c[2]][c[1]] = OBSTACLE

(***************************************************************************)
(* C20: in the step loop with UtilityBasedAgent, whenever the agent holds  *)
(* a non-empty cached path and a goal, the goal cell is Dirty and is the   *)
(* last cell of the cached path; so a hop of the cached path is returned   *)
(* only while the goal is Dirty, and act never takes the branch that       *)
(* discards a stale goal and plans again.                                  *)
(***************************************************************************)
C20_GoalStaysDirty ==
    sim.current_agent_index = 2 =>
      LET a == current_agent(sim)
      IN  /\ a.current_path # <<>> /\ a.current_goal # None =>
               /\ get_tile_state(env, a.current_goal[1], a.current_goal[2])
                    = DIRTY
               /\ a.current_path[Len(a.current_path)] = a.current_goal
          /\ last.op = "step" => last.args.branch # "stale"
          /\ last.op = "step" /\ last.args.branch = "follow" =>
               /\ a.current_goal # None
               /\ get_tile_state(env, a.current_goal[1], a.current_goal[2])
                    = DIRTY

\* the agent has followed its cached path onto a tile that is not Dirty, with
\* hops left and its goal ahead
C20_Witness ==
    /\ sim.current_agent_index = 2
    /\ last.op = "step"
    /\ last.args.branch = "follow"
    /\ current_agent(sim).current_path # <<>>
    /\ current_agent(sim).current_goal # None
    /\ get_tile_state(env, env.robot_pos[1], env.robot_pos[2]) # DIRTY

(***************************************************************************)
(* C21: for each of the four agents, in every state the simulation         *)
(* reaches (after a clean in the middle of a cached path, after reset,     *)
(* after select_agent): a move action returned by act names a walkable     *)
(* cell next to the robot's position (up, right, down or left), so         *)
(* move_robot returns True and the robot ends on that cell, one cell away  *)
(* from where it was.                                                      *)
(***************************************************************************)
C21_MovesAreSingleHops ==
    [][last'.op = "step" /\ last'.args.action[1] = "move" =>
         LET target == last'.args.action[2]
         IN  /\ target \in WalkableCells(env)
             /\ Adjacent(target, env.robot_pos)
             /\ last'.ret = TRUE
             /\ env'.robot_pos = target]_vars

\* a ModelBasedAgent has followed its cached path off a tile it had just
\* cleaned, after the simulation was reset
C21_Witness ==
    /\ sim.current_agent_index = 1
    /\ last.resets = 1
    /\ last.op = "step"
    /\ last.args.action[1] = "move"
    /\ last.args.branch = "follow"
    /\ env.cleaned_dirt = 1
    /\ \E c \in current_agent(sim).cleaned_tiles : Adjacent(c, env.robot_pos)
    /\ current_agent(sim).current_path # <<>>

(***************************************************************************)
(* Specification of the step loop: an agent is selected on a freshly built *)
(* simulation and step is called again and again, with no key pressed      *)
(* afterwards.                                                             *)
(***************************************************************************)
LoopInit ==
    /\ env \in SimEnvironments
    /\ \E index \in 0..3 :
         sim = simulation_reset(
                 [VacuumSimulation EXCEPT !.current_agent_index = index])
    /\ run = NoCall
    /\ last = NoOp

LoopSpec == LoopInit /\ [][SimStep]_vars

(***************************************************************************)
(* C22: with ModelBasedAgent, UtilityBasedAgent or GoalBasedAgent, when    *)
(* every Dirty cell can be reached from the robot, the steps of the loop   *)
(* lead to a state where is_all_clean() is true.  Stated with a variant:   *)
(* as long as a Dirty cell is left, the loop has not completed, every      *)
(* outcome of step changes the state and strictly decreases Potential, a   *)
(* natural number, and every Dirty cell stays reachable.  A loop that      *)
(* keeps calling step therefore reaches is_all_clean() within Potential    *)
(* steps.                                                                  *)
(***************************************************************************)
Planning(s, e) ==
    /\ s.current_agent_index \in {1, 2, 3}
    /\ Range(get_dirty_tiles(e)) \subseteq Reachable(e, e.robot_pos)

\* Dirty cells left, weighted above the steps to the next clean action: none
\* on a Dirty tile, the cached hops when a path is pending, otherwise less
\* than one hop per cell
Potential(s, e) ==
    LET K == e.width * e.height + 1
        a == current_agent(s)
    IN  Len(get_dirty_tiles(e)) * K
          + (IF perceive(e).tile_state = DIRTY THEN 0
             ELSE IF a.current_path # <<>> THEN Len(a.current_path)
             ELSE K - 1)

C22_EventuallyAllClean ==
    /\ [](Planning(sim, env) /\ ~is_all_clean(env) =>
            LET outcomes == act(sim.current_agent_index, current_agent(sim),
                                env, perceive(env))
            IN  /\ ~sim.is_complete
                /\ outcomes # {}
                /\ \A outcome \in outcomes :
                     LET r == execute(sim, env, outcome)
                     IN  /\ Planning(r.sim, r.env)
                         /\ Potential(r.sim, r.env) >= 0
                         /\ Potential(r.sim, r.env) < Potential(sim, env))
    /\ [][Planning(sim, env) /\ ~is_all_clean(env) =>
            /\ last'.op = "step"
            /\ Potential(sim', env') < Potential(sim, env)]_vars

\* a planning agent has cleaned a grid of two Dirty cells and an obstacle
C22_Witness ==
    /\ sim.current_agent_index \in {1, 2, 3}
    /\ is_all_clean(env)
    /\ env.total_dirt = 2
    /\ get_dirty_tiles(env) = <<>>
    /\ last.op = "step"
    /\ last.args.action[1] = "clean"
    /\ \E c \in Cells(env.width, env.height) :
         get_tile_state(env, c[1], c[2]) = OBSTACLE

(***************************************************************************)
(* Specification of the step loop with its scheduling: run calls step on   *)
(* every frame while is_running, so step is taken again and again (weak    *)
(* fairness).  SimpleReflexAgent starts on any grid; the three planning    *)
(* agents start on a grid without dirt, where the environment is all       *)
(* clean from the first step on.                                           *)
(***************************************************************************)
CompletionInit ==
    /\ LoopInit
    /\ sim.current_agent_index = 0 \/ env.total_dirt = 0

CompletionLive ==
    CompletionInit /\ [][SimStep]_vars /\ WF_vars(SimStep)

(***************************************************************************)
(* C23: for each of the four agents, is_complete is true only when the     *)
(* environment is all clean; once the environment is all clean the steps   *)
(* of the loop lead to is_complete being true; and once is_complete is     *)
(* true a step changes neither the environment nor the agents.             *)
(***************************************************************************)
C23_CompletesOnceClean ==
    /\ [](sim.is_complete => is_all_clean(env))
    /\ is_all_clean(env) ~> sim.is_complete
    /\ [][sim.is_complete => env' = env /\ sim' = sim]_vars

(***************************************************************************)
(* C24: in every state reached from construction or from a reset, the      *)
(* number of Dirty cells of the grid plus cleaned_dirt equals total_dirt,  *)
(* so is_all_clean() is true exactly when get_dirty_tiles() is empty; and  *)
(* cleaned_dirt does not decrease in any transition that is not a reset.   *)
(***************************************************************************)
C24_DirtAccounting ==
    /\ [](/\ Len(get_dirty_tiles(env)) + env.cleaned_dirt = env.total_dirt
          /\ is_all_clean(env) <=> get_dirty_tiles(env) = <<>>)
    /\ [][last'.resets = last.resets =>
            env'.cleaned_dirt >= env.cleaned_dirt]_vars

\* after a reset one of two Dirty cells has been cleaned
C24_Witness ==
    /\ last.resets = 1
    /\ last.op = "step"
    /\ last.args.action[1] = "clean"
    /\ env.cleaned_dirt = 1
    /\ Len(get_dirty_tiles(env)) = 1
    /\ ~is_all_clean(env)

(***************************************************************************)
(* Specification of the search calls on tall grids: as SearchSpec, on      *)
(* grids high enough for astar to reach a cell first by a detour and then  *)
(* by a shorter way.                                                       *)
(***************************************************************************)
TallEnvironments ==
    UNION {{initialize_grid(wh[1], wh[2], o, {}) :
              o \in {ob \in SUBSET (Cells(wh[1], wh[2]) \ {<<0, 0>>}) :
                       Cardinality(ob) <= TallObstacles}} :
             wh \in (1..TallWidth) \X (1..TallHeight)}

TallInit ==
    /\ env \in TallEnvironments
    /\ run = NoCall
    /\ last = NoOp
    /\ sim = VacuumSimulation

TallSpec == TallInit /\ [][SearchNext]_vars

\* the next iteration of astar pops an entry of a cell already explored
StalePop ==
    /\ run.alg = "astar"
    /\ run.pc = "loop"
    /\ run.frontier # <<>>
    /\ heappop(run.frontier).item[2] \in run.explored

(***************************************************************************)
(* C25 as stated: in bfs, dfs and astar every iteration of the while-loop  *)
(* adds exactly one cell, not explored before, to the explored set, and    *)
(* the number of iterations is at most the number of grid cells.           *)
(***************************************************************************)
C25_EveryIterationExplores ==
    /\ [][run.pc = "loop" /\ run.frontier # <<>> =>
            /\ run.explored \subseteq run'.explored
            /\ Cardinality(run'.explored) = Cardinality(run.explored) + 1]_vars
    /\ [](Len(run.result.frontier_history) <= env.width * env.height)

(***************************************************************************)
(* C25 amended: in bfs and dfs every iteration adds exactly one new cell   *)
(* to the explored set, so there are at most as many iterations as grid    *)
(* cells.  In astar an iteration either adds exactly one new cell, or it   *)
(* pops an entry of an explored cell and leaves the explored set           *)
(* unchanged while the frontier loses that entry; iterations done plus     *)
(* entries waiting are at most one plus four per explored cell.            *)
(***************************************************************************)
C25_IterationExploresOrDiscards ==
    /\ [][run.pc = "loop" /\ run.frontier # <<>> =>
            IF StalePop
            THEN /\ run'.explored = run.explored
                 /\ Len(run'.frontier) = Len(run.frontier) - 1
            ELSE /\ run.explored \subseteq run'.explored
                 /\ Cardinality(run'.explored) = Cardinality(run.explored) + 1]_vars
    /\ [](/\ run.result.nodes_expanded = Cardinality(run.explored)
          /\ Cardinality(run.explored) <= env.width * env.height
          /\ run.alg \in {"bfs", "dfs"} =>
               Len(run.result.frontier_history) = Cardinality(run.explored)
          /\ run.alg = "astar" =>
               Len(run.result.frontier_history) + Len(run.frontier)
                 <= 1 + 4 * Cardinality(run.explored))

\* an astar call returned after an iteration that explored no cell
C25_Witness ==
    /\ Returned("astar")
    /\ Len(run.result.frontier_history) > Cardinality(run.explored)

(***************************************************************************)
(* C26: in astar, a cell popped while not yet explored is expanded with    *)
(* its g_score equal to the least number of hops from start to it, and it  *)
(* is new to the explored set (each cell is expanded once); an entry       *)
(* popped for a cell already explored is dropped with g_score, came_from   *)
(* and nodes_expanded unchanged.  The frontier may hold a cell twice,      *)
(* pushed again with a smaller g.                                          *)
(***************************************************************************)
C26_AstarExpandsAtShortestDistance ==
    /\ [][run.alg = "astar" /\ run.pc = "loop" /\ run.frontier # <<>> =>
            LET current == heappop(run.frontier).item[2]
            IN  IF current \in run.explored
                THEN /\ run'.g_score = run.g_score
                     /\ run'.came_from = run.came_from
                     /\ run'.result.nodes_expanded = run.result.nodes_expanded
                     /\ run'.explored = run.explored
                ELSE /\ run.g_score[current] = Distance(env, run.start, current)
                     /\ run'.explored = run.explored \cup {current}
                     /\ run'.result.nodes_expanded
                          = run.result.nodes_expanded + 1]_vars
    /\ [](run.alg = "astar" =>
            run.result.nodes_expanded = Cardinality(run.explored))

\* the frontier of astar holds a cell twice, with two different priorities
C26_Witness ==
    /\ run.alg = "astar"
    /\ run.pc = "loop"
    /\ \E i, j \in DOMAIN run.frontier :
         /\ run.frontier[i][2] = run.frontier[j][2]
         /\ run.frontier[i][1] < run.frontier[j][1]
         /\ run.g_score[run.frontier[i][2]] < run.frontier[j][1]

(***************************************************************************)
(* C29: in dfs a coordinate is pushed only when it has no came_from entry, *)
(* so it is pushed at most once: the stack holds no coordinate twice and   *)
(* none that is explored, the popped coordinate is never in explored (the  *)
(* skip branch is not taken), and nodes_expanded, the number of            *)
(* iterations and the size of explored are equal.                          *)
(***************************************************************************)
C29_DfsPushesOnce ==
    /\ [](run.alg = "dfs" =>
            /\ \A i, j \in DOMAIN run.frontier :
                 run.frontier[i] = run.frontier[j] => i = j
            /\ run.pc = "loop" =>
                 /\ Range(run.frontier) \cap run.explored = {}
                 /\ DOMAIN run.came_from = Range(run.frontier) \cup run.explored
            /\ run.result.nodes_expanded = Len(run.result.frontier_history)
            /\ run.result.nodes_expanded = Cardinality(run.explored))
    /\ [][run.alg = "dfs" /\ run.pc = "loop" /\ run.frontier # <<>> =>
            LET current == run.frontier[Len(run.frontier)]
                rest == SubSeq(run.frontier, 1, Len(run.frontier) - 1)
            IN  /\ current \notin run.explored
                /\ current \in run'.explored
                /\ \A k \in DOMAIN run'.frontier :
                     k > Len(rest) =>
                       run'.frontier[k] \notin DOMAIN run.came_from]_vars

\* a dfs call has explored the four cells of a square, each of them next to
\* two of the others
C29_Witness ==
    /\ Returned("dfs")
    /\ \E x \in 0..(env.width - 2) : \E y \in 0..(env.height - 2) :
         {<<x, y>>, <<x + 1, y>>, <<x, y + 1>>, <<x + 1, y + 1>>}
           \subseteq run.explored
    /\ Len(run.result.frontier_history) = Cardinality(run.explored)

\* the Dirty cells of the grid, and the first of them in row-major order
\* (smallest y, then smallest x)
DirtyCells(e) ==
    {c \in Cells(e.width, e.height) : get_tile_state(e, c[1], c[2]) = DIRTY}

FirstDirty(e) ==
    CHOOSE c \in DirtyCells(e) :
      \A d \in DirtyCells(e) : c[2] < d[2] \/ (c[2] = d[2] /\ c[1] <= d[1])

(***************************************************************************)
(* C27: GoalBasedAgent on a tile that is not Dirty, with no cached path:   *)
(* act returns wait exactly when the grid has no Dirty cell or the first   *)
(* Dirty cell in row-major order cannot be reached from the robot (other   *)
(* Dirty cells may be reachable); otherwise it returns a move to the first *)
(* cell of the dfs path to that first Dirty cell and caches the rest of    *)
(* the path.  The step that follows executes that action.                  *)
(***************************************************************************)
C27_GoalTargetsFirstDirty ==
    /\ [](/\ sim.current_agent_index = 3
          /\ perceive(env).tile_state # DIRTY
          /\ current_agent(sim).current_path = <<>>
          => LET outcomes == act(3, current_agent(sim), env, perceive(env))
                 waits == \/ DirtyCells(env) = {}
                          \/ FirstDirty(env) \notin Reachable(env, env.robot_pos)
             IN  /\ outcomes # {}
                 /\ \A outcome \in outcomes :
                      IF waits
                      THEN /\ outcome.action = <<"wait", None>>
                           /\ outcome.agent.current_path = <<>>
                      ELSE LET path == dfs(env, env.robot_pos, FirstDirty(env)).path
                           IN  /\ path # <<>>
                               /\ path[Len(path)] = FirstDirty(env)
                               /\ outcome.action = <<"move", Head(path)>>
                               /\ outcome.agent.current_path = Tail(path))
    /\ [][/\ sim.current_agent_index = 3
          /\ perceive(env).tile_state # DIRTY
          /\ current_agent(sim).current_path = <<>>
          /\ last'.op = "step"
          => \E outcome \in act(3, current_agent(sim), env, perceive(env)) :
               /\ last'.args.action = outcome.action
               /\ current_agent(sim') = outcome.agent]_vars

\* the agent waited although a Dirty cell can be reached: the first Dirty
\* cell in row-major order cannot
C27_Witness ==
    /\ sim.current_agent_index = 3
    /\ last.op = "step"
    /\ last.args.action[1] = "wait"
    /\ DirtyCells(env) \cap Reachable(env, env.robot_pos) # {}
    /\ FirstDirty(env) \notin Reachable(env, env.robot_pos)

\* the Dirty cell at the least Manhattan distance from pos, the earliest in
\* row-major order among those at that distance
NearestDirty(e, pos) ==
    CHOOSE c \in DirtyCells(e) :
      \A d \in DirtyCells(e) :
        \/ heuristic(pos, c) < heuristic(pos, d)
        \/ /\ heuristic(pos, c) = heuristic(pos, d)
           /\ c[2] < d[2] \/ (c[2] = d[2] /\ c[1] <= d[1])

(***************************************************************************)
(* C28: ModelBasedAgent on a tile that is not Dirty, with no cached path,  *)
(* when the Dirty cell nearest by Manhattan distance (the earliest in      *)
(* row-major order among the nearest) can be reached: act returns a move   *)
(* to the first cell of the bfs path to that cell and caches the rest,     *)
(* and the path ends at that cell.  On every later call on a tile that is  *)
(* not Dirty, act returns the head of the cached path and drops it from    *)
(* the cache, and the robot moves there; a call that cleans leaves the     *)
(* cache as it is.  So the moves are the cells of the bfs path, in order,  *)
(* each once, and the last is the target, still Dirty until it is          *)
(* reached.                                                                *)
(***************************************************************************)
C28_ModelFollowsBfsPath ==
    /\ [](sim.current_agent_index = 1 =>
            LET a == current_agent(sim)
                outcomes == act(1, a, env, perceive(env))
            IN  /\ /\ perceive(env).tile_state # DIRTY
                   /\ a.current_path = <<>>
                   /\ DirtyCells(env) # {}
                   /\ NearestDirty(env, env.robot_pos)
                        \in Reachable(env, env.robot_pos)
                   => LET target == NearestDirty(env, env.robot_pos)
                          path == bfs(env, env.robot_pos, target).path
                      IN  /\ path # <<>>
                          /\ path[Len(path)] = target
                          /\ outcomes =
                               {Outcome([a EXCEPT !.current_path = Tail(path)],
                                        "move", Head(path), "plan")}
                /\ /\ perceive(env).tile_state # DIRTY
                   /\ a.current_path # <<>>
                   => outcomes =
                        {Outcome([a EXCEPT !.current_path = Tail(@)],
                                 "move", Head(a.current_path), "follow")}
                /\ a.current_path # <<>> =>
                     /\ Adjacent(Head(a.current_path), env.robot_pos)
                     /\ \A k \in 1..(Len(a.current_path) - 1) :
                          Adjacent(a.current_path[k], a.current_path[k + 1])
                     /\ a.current_path[Len(a.current_path)] \in DirtyCells(env))
    /\ [][sim.current_agent_index = 1 /\ last'.op = "step" =>
            LET a == current_agent(sim)
            IN  IF perceive(env).tile_state = DIRTY
                THEN /\ last'.args.action[1] = "clean"
                     /\ current_agent(sim').current_path = a.current_path
                     /\ env'.robot_pos = env.robot_pos
                ELSE a.current_path # <<>> =>
                       /\ last'.args.action = <<"move", Head(a.current_path)>>
                       /\ env'.robot_pos = Head(a.current_path)
                       /\ current_agent(sim').current_path
                            = Tail(a.current_path)]_vars

\* the agent is following a cached path to one of two Dirty cells that are
\* at the same Manhattan distance from the start cell, before any clean
C28_Witness ==
    /\ sim.current_agent_index = 1
    /\ last.op = "step"
    /\ last.args.branch = "follow"
    /\ env.cleaned_dirt = 0
    /\ \E c, d \in DirtyCells(env) :
         /\ c # d
         /\ current_agent(sim).current_path # <<>>
         /\ c = current_agent(sim).current_path[Len(current_agent(sim).current_path)]
         /\ heuristic(<<0, 0>>, c) = heuristic(<<0, 0>>, d)

====
